---------------------------- MODULE Spec2Model ----------------------------
(***************************************************************************)
(* A model of the Trade KPIs Explorer script (src/app.py): the in-place    *)
(* normalization of the loaded dataset, compute_hhi_table, the facet       *)
(* filters behind the ranked HHI table and the data preview, the product   *)
(* summary with its aggregate HHI, and the IPTB matrix pivot.              *)
(*                                                                         *)
(* Representation.  A string is a sequence of one-character strings, so    *)
(* that padding, slicing, lower-casing, prefix and substring tests are     *)
(* computed and not assumed.  A cell of a column that the script coerces   *)
(* is a tagged record (a string, a number or NaN).  A float is an exact    *)
(* rational [n, d] in lowest terms: rounding error of IEEE arithmetic is   *)
(* not modelled.  A data frame is a sequence of row records.               *)
(***************************************************************************)
EXTENDS Integers, Sequences, FiniteSets, TLC

VARIABLES
    df_loaded,          \* st.session_state["df_loaded"]: [hasYear, rows]
    hhi_table_all,      \* first result of compute_hhi_table(df_loaded)
    merged_shares_df,   \* second result of compute_hhi_table(df_loaded)
    hhi_cache_arg,      \* the rows st.cache_data holds that result for
    selected_years,     \* multiselect "Select Year(s)": a set of years
    selected_country,   \* selectbox "Select Country"
    selected_province,  \* selectbox "Select Province (Canada)"
    selected_state,     \* selectbox "Select State (US)"
    industry_search,    \* text input "Industry Prefix (NAICS/IOIC)"
    hs_input,           \* text input "Enter HS10 Code"
    supc_input,         \* text input "Enter SUPC Code for HHI/PCI"
    supc_matrix_input,  \* text input "SUPC Code for IPTB Matrix"
    run_btn,            \* button "Get Product HHI/PCI Info" of this run
    hhi_display,        \* the ranked HHI table handed to st.dataframe
    df_preview,         \* the filtered data preview / download table
    summary,            \* what the product summary section showed
    df_IPTB,            \* st.session_state["df_IPTB"]
    concord,            \* st.session_state["concord"]
    matrix              \* what the IPTB matrix section showed

vars == << df_loaded, hhi_table_all, merged_shares_df, hhi_cache_arg,
           selected_years,
           selected_country, selected_province, selected_state,
           industry_search, hs_input, supc_input, supc_matrix_input, run_btn,
           hhi_display, df_preview, summary, df_IPTB, concord, matrix >>

-----------------------------------------------------------------------------
(* Bounds of the model. *)

\* Longest dataset a load of the concentration-table specification draws.
MaxRows == 3
\* Longest dataset a load of the dashboard specification draws.
MaxDashRows == 2
\* Longest dataset a load of the product-summary specification draws.
MaxSummaryRows == 3
\* Longest dataset a load of the normalization specification draws.
MaxNormRows == 1
\* Longest IPTB table an upload draws.
MaxIptbRows == 2
\* Longest concordance table an upload draws.
MaxConcordRows == 1

-----------------------------------------------------------------------------
(* Strings, as sequences of characters. *)

\* The characters the model's strings are made of, in code-point order.
Chars == << "%", "-", "0", "1", "2", "3", "4", "5", "6", "7", "8", "9",
            "A", "B", "C", "D", "F", "I", "J", "K", "M", "N", "O", "P", "S",
            "T", "U", "X", "Y",
            "a", "b", "c", "e", "n", "o", "p", "s", "u", "x", "y" >>

CharCodeOf ==
    [c \in {Chars[i] : i \in 1..Len(Chars)} |->
        CHOOSE i \in 1..Len(Chars) : Chars[i] = c]

CharCode(c) == CharCodeOf[c]

Digits == << "0", "1", "2", "3", "4", "5", "6", "7", "8", "9" >>

IsDigit(c) == \E i \in 1..10 : Digits[i] = c

DigitVal(c) == (CHOOSE i \in 1..10 : Digits[i] = c) - 1

\* str.lower() on one character.
LowerChar(c) ==
    CASE c = "A" -> "a" [] c = "B" -> "b" [] c = "C" -> "c" [] c = "N" -> "n"
      [] c = "O" -> "o" [] c = "P" -> "p" [] c = "S" -> "s" [] c = "U" -> "u"
      [] c = "X" -> "x" [] c = "Y" -> "y"
      [] OTHER -> c

\* str.lower()
Lower(s) == [i \in 1..Len(s) |-> LowerChar(s[i])]

\* s < t in Python's string order.
RECURSIVE StrLessFrom(_, _, _)
StrLessFrom(s, t, i) ==
    IF i > Len(t) THEN FALSE
    ELSE IF i > Len(s) THEN TRUE
    ELSE IF s[i] = t[i] THEN StrLessFrom(s, t, i + 1)
    ELSE CharCode(s[i]) < CharCode(t[i])

StrLess(s, t) == s # t /\ StrLessFrom(s, t, 1)

\* str.startswith(p)
StartsWith(s, p) ==
    /\ Len(p) <= Len(s)
    /\ \A i \in 1..Len(p) : s[i] = p[i]

\* A literal p occurs in s (str.contains with a pattern of plain characters).
Contains(s, p) ==
    \E k \in 0..(Len(s) - Len(p)) : \A i \in 1..Len(p) : s[k + i] = p[i]

\* str.slice(a, b): the characters at Python positions a .. b-1.
Slice(s, a, b) ==
    LET hi == IF b < Len(s) THEN b ELSE Len(s)
    IN  IF hi <= a THEN << >> ELSE SubSeq(s, a + 1, hi)

\* The function f on 1..n as the sequence of its values.
AsSeq(f) == << >> \o f

RECURSIVE Repeat(_, _)
Repeat(c, n) == IF n <= 0 THEN << >> ELSE << c >> \o Repeat(c, n - 1)

\* str(n) for an integer n >= 0.
RECURSIVE IntToStr(_)
IntToStr(n) ==
    IF n < 10 THEN << Digits[n + 1] >>
    ELSE IntToStr(n \div 10) \o << Digits[(n % 10) + 1] >>

\* int(s) for a string of digits.
RECURSIVE StrToInt(_)
StrToInt(s) ==
    IF Len(s) = 0 THEN 0
    ELSE 10 * StrToInt(SubSeq(s, 1, Len(s) - 1)) + DigitVal(s[Len(s)])

-----------------------------------------------------------------------------
(* Cells: what a column of an uncoerced frame can hold. *)

StrCell(s) == [k |-> "str", s |-> s, n |-> 0]
NumCell(n) == [k |-> "num", s |-> << >>, n |-> n]
NaNCell    == [k |-> "nan", s |-> << >>, n |-> 0]

IsNaN(c) == c.k = "nan"

\* Series.astype(str) on one cell: a string stays, a number is printed, NaN
\* becomes the string "nan".
AsTypeStr(c) ==
    CASE c.k = "str" -> c
      [] c.k = "num" -> StrCell(IntToStr(c.n))
      [] OTHER       -> StrCell(<< "n", "a", "n" >>)

\* pd.to_numeric(errors="coerce") on one cell: a number and NaN stay, a
\* string of digits is parsed, any other string becomes NaN.
ToNumeric(c) ==
    CASE c.k = "num" -> c
      [] c.k = "nan" -> c
      [] OTHER ->
           IF Len(c.s) > 0 /\ \A i \in 1..Len(c.s) : IsDigit(c.s[i])
           THEN NumCell(StrToInt(c.s))
           ELSE NaNCell

\* The width HS10 is padded to.
HS10Width == 10

\* width zeros put in front whatever the length.
ZFillPrepend(s, width) == Repeat("0", width) \o s

\* str.zfill(width): zeros on the left, after a leading sign.
ZFill(s, width) ==
    IF Len(s) >= width THEN s
    ELSE IF Len(s) > 0 /\ s[1] = "-"
         THEN << "-" >> \o Repeat("0", width - Len(s)) \o Tail(s)
         ELSE Repeat("0", width - Len(s)) \o s

-----------------------------------------------------------------------------
(* Exact rationals [n, d], d > 0, in lowest terms. *)

RECURSIVE GCD(_, _)
GCD(a, b) == IF b = 0 THEN a ELSE GCD(b, a % b)

Frac(n, d) ==
    LET g == GCD(n, d) IN IF n = 0 THEN [n |-> 0, d |-> 1]
                          ELSE [n |-> n \div g, d |-> d \div g]

FracZero == [n |-> 0, d |-> 1]
FracOne  == [n |-> 1, d |-> 1]

FracAdd(a, b) == Frac(a.n * b.d + b.n * a.d, a.d * b.d)
FracMul(a, b) == Frac(a.n * b.n, a.d * b.d)
FracLess(a, b) == a.n * b.d < b.n * a.d
FracLeq(a, b)  == a.n * b.d <= b.n * a.d

-----------------------------------------------------------------------------
(* The normalization block the script applies to the session's dataset on  *)
(* every run.  A dataset is [hasYear, rows]: hasYear says whether the      *)
(* frame has a Year column (a frame without one holds placeholders in the  *)
(* Year, Month and MonthName fields of its rows).                          *)

month_name ==
    << << "J", "a", "n", "u", "a", "r", "y" >>,
       << "F", "e", "b", "r", "u", "a", "r", "y" >>,
       << "M", "a", "r", "c", "h" >>,
       << "A", "p", "r", "i", "l" >>,
       << "M", "a", "y" >>,
       << "J", "u", "n", "e" >>,
       << "J", "u", "l", "y" >>,
       << "A", "u", "g", "u", "s", "t" >>,
       << "S", "e", "p", "t", "e", "m", "b", "e", "r" >>,
       << "O", "c", "t", "o", "b", "e", "r" >>,
       << "N", "o", "v", "e", "m", "b", "e", "r" >>,
       << "D", "e", "c", "e", "m", "b", "e", "r" >> >>

\* Year, Month and MonthName of one row from its YearMonth.
DeriveYearMonth(r) ==
    LET ym == AsTypeStr(r.YearMonth)
        mo == StrToInt(Slice(ym.s, 4, 6))
    IN  [r EXCEPT !.YearMonth = ym,
                  !.Year      = StrToInt(Slice(ym.s, 0, 4)),
                  !.Month     = mo,
                  !.MonthName = Slice(month_name[mo], 0, 3)]

\* HS10 as a string, zero-filled to 10 characters.
PadHS10(c) == StrCell(ZFill(AsTypeStr(c).s, HS10Width))

\* The three numeric conversions of one row.
NumericConversions(r) ==
    [r EXCEPT !.Value    = ToNumeric(r.Value),
              !.Quantity = ToNumeric(r.Quantity),
              !.pci_2023 = ToNumeric(r.pci_2023)]

NormalizeRow(r, hasYear) ==
    LET r1 == IF hasYear THEN r ELSE DeriveYearMonth(r)
        r2 == [r1 EXCEPT !.HS10 = PadHS10(r1.HS10),
                         !.SUPC = AsTypeStr(r1.SUPC)]
    IN  NumericConversions(r2)

\* Lines 102-117 applied to the frame held in session state.
Normalize(df) ==
    [hasYear |-> TRUE,
     rows    |-> AsSeq([i \in 1..Len(df.rows) |->
                           NormalizeRow(df.rows[i], df.hasYear)])]

EmptyFrame == [hasYear |-> FALSE, rows |-> << >>]

-----------------------------------------------------------------------------
(* compute_hhi_table *)

\* The product key of a row and its order (groupby sorts its keys).
Key3(r) == << r.Year, r.HS10.s, r.SUPC.s >>

Key3Less(a, b) ==
    \/ a[1] < b[1]
    \/ a[1] = b[1] /\ StrLess(a[2], b[2])
    \/ a[1] = b[1] /\ a[2] = b[2] /\ StrLess(a[3], b[3])

Key4(r) == << r.Year, r.HS10.s, r.SUPC.s, r.Country >>

Key4Less(a, b) ==
    \/ Key3Less(<< a[1], a[2], a[3] >>, << b[1], b[2], b[3] >>)
    \/ a[1] = b[1] /\ a[2] = b[2] /\ a[3] = b[3] /\ StrLess(a[4], b[4])

\* The keys of a groupby, in its sorted order.
RECURSIVE SortKeys3(_)
SortKeys3(S) ==
    IF S = {} THEN << >>
    ELSE LET m == CHOOSE x \in S : \A y \in S \ {x} : Key3Less(x, y)
         IN  << m >> \o SortKeys3(S \ {m})

RECURSIVE SortKeys4(_)
SortKeys4(S) ==
    IF S = {} THEN << >>
    ELSE LET m == CHOOSE x \in S : \A y \in S \ {x} : Key4Less(x, y)
         IN  << m >> \o SortKeys4(S \ {m})

\* Series.sum() of the Value cells of a frame's rows, NaN skipped.
RECURSIVE SumValue(_)
SumValue(rows) ==
    IF Len(rows) = 0 THEN 0
    ELSE (IF IsNaN(Head(rows).Value) THEN 0 ELSE Head(rows).Value.n)
         + SumValue(Tail(rows))

\* df.dropna(subset=["Value"])
DropNaValue(rows) ==
    LET Keep(r) == ~IsNaN(r.Value) IN SelectSeq(rows, Keep)

\* groupby(["Year","HS10","SUPC"])["Value"].sum() as total_value
ProductTotals(dfc) ==
    LET ks == SortKeys3({Key3(dfc[i]) : i \in 1..Len(dfc)})
    IN  AsSeq([i \in 1..Len(ks) |->
            LET In(r) == Key3(r) = ks[i]
            IN  [Year |-> ks[i][1], HS10 |-> ks[i][2], SUPC |-> ks[i][3],
                 total_value |-> SumValue(SelectSeq(dfc, In))]])

\* The same frame with the rows of a (product, country) not summed: one
\* share row per input row.
SharesPerRow(dfc) ==
    AsSeq([i \in 1..Len(dfc) |->
        [Year |-> dfc[i].Year, HS10 |-> dfc[i].HS10.s, SUPC |-> dfc[i].SUPC.s,
         Country |-> dfc[i].Country, Value |-> dfc[i].Value.n]])

\* groupby(["Year","HS10","SUPC","Country"])["Value"].sum()
Shares(dfc) ==
    LET ks == SortKeys4({Key4(dfc[i]) : i \in 1..Len(dfc)})
    IN  AsSeq([i \in 1..Len(ks) |->
            LET In(r) == Key4(r) = ks[i]
            IN  [Year |-> ks[i][1], HS10 |-> ks[i][2], SUPC |-> ks[i][3],
                 Country |-> ks[i][4],
                 Value |-> SumValue(SelectSeq(dfc, In))]])

\* The share itself, not squared.
ShareNotSquared(value, total) ==
    IF total = 0 THEN FracZero ELSE Frac(value, total)

\* (Value / total_value).fillna(0) ** 2.  With values >= 0 a zero total has
\* a zero value, 0/0 is NaN and fillna makes it 0.
ShareSq(value, total) ==
    IF total = 0 THEN FracZero
    ELSE FracMul(Frac(value, total), Frac(value, total))

\* shares.merge(product_totals, how="left") with the share_sq column.
Merged(shares, totals) ==
    AsSeq([i \in 1..Len(shares) |->
        LET s == shares[i]
            t == CHOOSE j \in 1..Len(totals) :
                     /\ totals[j].Year = s.Year
                     /\ totals[j].HS10 = s.HS10
                     /\ totals[j].SUPC = s.SUPC
            tv == totals[t].total_value
        IN  [Year |-> s.Year, HS10 |-> s.HS10, SUPC |-> s.SUPC,
             Country |-> s.Country, Value |-> s.Value, total_value |-> tv,
             share_sq |-> ShareSq(s.Value, tv)]])

RECURSIVE SumShareSq(_)
SumShareSq(rows) ==
    IF Len(rows) = 0 THEN FracZero
    ELSE FracAdd(Head(rows).share_sq, SumShareSq(Tail(rows)))

\* merged.groupby(["Year","HS10","SUPC"])["share_sq"].sum() as HHI
HhiGroupby(merged) ==
    LET ks == SortKeys3({<< merged[i].Year, merged[i].HS10, merged[i].SUPC >> :
                            i \in 1..Len(merged)})
    IN  AsSeq([i \in 1..Len(ks) |->
            LET In(r) == << r.Year, r.HS10, r.SUPC >> = ks[i]
            IN  [Year |-> ks[i][1], HS10 |-> ks[i][2], SUPC |-> ks[i][3],
                 HHI |-> SumShareSq(SelectSeq(merged, In))]])

\* drop_duplicates(subset=["Year","HS10","SUPC"]), then the left merge: each
\* HHI row gets the Description of the first row of its key.
WithDescription(hhi, dfc) ==
    AsSeq([i \in 1..Len(hhi) |->
        LET first == CHOOSE j \in 1..Len(dfc) :
                        /\ Key3(dfc[j]) = << hhi[i].Year, hhi[i].HS10, hhi[i].SUPC >>
                        /\ \A l \in 1..(j - 1) : Key3(dfc[l]) # Key3(dfc[j])
        IN  [Year |-> hhi[i].Year, HS10 |-> hhi[i].HS10, SUPC |-> hhi[i].SUPC,
             HHI |-> hhi[i].HHI, Description |-> dfc[first].Description]])

\* Row a comes strictly before row b under ["Year","HHI"], [True, False].
SortsBefore(a, b) ==
    \/ a.Year < b.Year
    \/ a.Year = b.Year /\ FracLess(b.HHI, a.HHI)

\* One row put into a sorted frame after every row it does not precede.
RECURSIVE InsertStable(_, _)
InsertStable(sorted, x) ==
    IF Len(sorted) = 0 THEN << x >>
    ELSE IF SortsBefore(x, sorted[Len(sorted)])
         THEN InsertStable(SubSeq(sorted, 1, Len(sorted) - 1), x)
              \o << sorted[Len(sorted)] >>
         ELSE sorted \o << x >>

\* The same, after every row it does not follow: equal rows end reversed.
RECURSIVE InsertReversing(_, _)
InsertReversing(sorted, x) ==
    IF Len(sorted) = 0 THEN << x >>
    ELSE IF ~SortsBefore(sorted[Len(sorted)], x)
         THEN InsertReversing(SubSeq(sorted, 1, Len(sorted) - 1), x)
              \o << sorted[Len(sorted)] >>
         ELSE sorted \o << x >>

RECURSIVE SortReversing(_)
SortReversing(t) ==
    IF Len(t) = 0 THEN << >>
    ELSE InsertReversing(SortReversing(SubSeq(t, 1, Len(t) - 1)), t[Len(t)])

\* hhi.sort_values(["Year","HHI"], ascending=[True, False]): pandas sorts on
\* several columns with a stable lexsort.
RECURSIVE SortValues(_)
SortValues(t) ==
    IF Len(t) = 0 THEN << >>
    ELSE InsertStable(SortValues(SubSeq(t, 1, Len(t) - 1)), t[Len(t)])

\* rank(method="min"): equal values share the smallest rank.
RankMin(t, i) ==
    1 + Cardinality({j \in 1..Len(t) :
                        t[j].Year = t[i].Year /\ FracLess(t[i].HHI, t[j].HHI)})

\* groupby("Year")["HHI"].rank(method="first", ascending=False) of row i:
\* larger values first, equal values in the order they appear in the frame.
RankFirst(t, i) ==
    1 + Cardinality({j \in 1..Len(t) :
                        /\ t[j].Year = t[i].Year
                        /\ \/ FracLess(t[i].HHI, t[j].HHI)
                           \/ t[j].HHI = t[i].HHI /\ j < i})

WithRank(t) ==
    AsSeq([i \in 1..Len(t) |->
        [Year |-> t[i].Year, HS10 |-> t[i].HS10, SUPC |-> t[i].SUPC,
         HHI |-> t[i].HHI, Description |-> t[i].Description,
         Rank |-> RankFirst(t, i)]])

\* Lines 123-143: the merged shares of the valued rows, and the aggregated
\* table as it stands before the sort of line 145.
MergedShares(dfc) == Merged(Shares(dfc), ProductTotals(dfc))

Aggregated(merged, dfc) == WithDescription(HhiGroupby(merged), dfc)

HhiAggregated(rows) ==
    Aggregated(MergedShares(DropNaValue(rows)), DropNaValue(rows))

\* compute_hhi_table(df): [hhi, merged]
compute_hhi_table(rows) ==
    LET dfc == DropNaValue(rows)
        merged == MergedShares(dfc)
    IN  [hhi    |-> WithRank(SortValues(Aggregated(merged, dfc))),
         merged |-> merged]

-----------------------------------------------------------------------------
(* The facet filters: the ranked HHI table and the data preview. *)

All == << "A", "l", "l" >>

\* A text input is given (Python truthiness of a string).
Given(text) == Len(text) > 0

\* dfc[dfc["Country"] == country] and the like, each behind its guard.
FilterOrigin(rows, country, province, state) ==
    LET Keep(r) ==
            /\ (Given(country) /\ country # All) => r.Country = country
            /\ (Given(province) /\ province # All) => r.Province = StrCell(province)
            /\ (Given(state) /\ state # All) => r.State = StrCell(state)
    IN  SelectSeq(rows, Keep)

\* The same table computed on the rows the origin facets leave.
HhiInputFiltered(rows, country, province, state) ==
    FilterOrigin(rows, country, province, state)

\* The rows compute_hhi_table is called on.  The fourth to sixth arguments
\* are the origin facets, which the call does not read.
HhiInput(rows, country, province, state) == rows

matched_by_industry(rows, industry_prefix) ==
    IF ~Given(industry_prefix) THEN rows
    ELSE LET Keep(r) ==
                 \/ StartsWith(Lower(AsTypeStr(r.naics).s), Lower(industry_prefix))
                 \/ StartsWith(Lower(AsTypeStr(r.ioic).s), Lower(industry_prefix))
         IN  SelectSeq(rows, Keep)

\* dfc[["HS10","SUPC"]].drop_duplicates(): the pairs in first-seen order.
RECURSIVE DistinctPairs(_, _)
DistinctPairs(rows, seen) ==
    IF Len(rows) = 0 THEN << >>
    ELSE LET pr == << Head(rows).HS10.s, Head(rows).SUPC.s >>
         IN  IF pr \in seen THEN DistinctPairs(Tail(rows), seen)
             ELSE << pr >> \o DistinctPairs(Tail(rows), seen \cup {pr})

get_matched_products(rows, industry, country, province, state) ==
    LET dfc == matched_by_industry(FilterOrigin(rows, country, province, state),
                                   industry)
    IN  IF Len(dfc) = 0 THEN << >> ELSE DistinctPairs(dfc, {})

\* hhi_table_all[hhi_table_all["Year"].isin(selected_years)]
FilterYears(table, years) ==
    LET Keep(r) == r.Year \in years IN SelectSeq(table, Keep)

\* Lines 259-261: the year filter, then the inner merge with the matched
\* products when there are any.
HhiFiltered(table, years, matched) ==
    LET byYear == FilterYears(table, years)
        Keep(r) == \E i \in 1..Len(matched) : matched[i] = << r.HS10, r.SUPC >>
    IN  IF Len(matched) > 0 THEN SelectSeq(byYear, Keep) ELSE byYear

\* Line 264: the table as displayed, sorted once more.
HhiDisplay(table, years, matched) ==
    SortValues(HhiFiltered(table, years, matched))

\* Lines 320-335: the preview.
Preview(rows, years, country, province, state, hs, supc, industry) ==
    LET ByYear(r) == (years # {}) => r.Year \in years
        ByHs(r)   == Given(hs) => Contains(Lower(r.HS10.s), Lower(hs))
        BySupc(r) == Given(supc) => Contains(Lower(r.SUPC.s), Lower(supc))
        f1 == SelectSeq(rows, ByYear)
        f2 == FilterOrigin(f1, country, province, state)
        f3 == SelectSeq(SelectSeq(f2, ByHs), BySupc)
    IN  matched_by_industry(f3, industry)

-----------------------------------------------------------------------------
(* The product summary and its aggregate HHI. *)

\* Lines 272-283: the rows of the product under the facets.
ProductRows(rows, years, country, province, state, hs, supc) ==
    LET ByYear(r) == r.Year \in years
        ByHs(r)   == Given(hs) => Contains(Lower(r.HS10.s), Lower(hs))
        BySupc(r) == Given(supc) => Contains(Lower(r.SUPC.s), Lower(supc))
        f1 == SelectSeq(rows, ByYear)
        f2 == FilterOrigin(f1, country, province, state)
    IN  SelectSeq(SelectSeq(f2, ByHs), BySupc)

RECURSIVE SumQuantity(_)
SumQuantity(rows) ==
    IF Len(rows) = 0 THEN 0
    ELSE (IF IsNaN(Head(rows).Quantity) THEN 0 ELSE Head(rows).Quantity.n)
         + SumQuantity(Tail(rows))

\* The group key of the summary and its order.
KeyYCU(r) == << r.Year, r.Country, r.UoM >>

KeyYCULess(a, b) ==
    \/ a[1] < b[1]
    \/ a[1] = b[1] /\ StrLess(a[2], b[2])
    \/ a[1] = b[1] /\ a[2] = b[2] /\ StrLess(a[3], b[3])

RECURSIVE SortKeysYCU(_)
SortKeysYCU(S) ==
    IF S = {} THEN << >>
    ELSE LET m == CHOOSE x \in S : \A y \in S \ {x} : KeyYCULess(x, y)
         IN  << m >> \o SortKeysYCU(S \ {m})

\* dfp.groupby(["Year","Country","UoM"]).agg(CountryValue, CountryQuantity)
TopCountriesByYear(dfp) ==
    LET ks == SortKeysYCU({KeyYCU(dfp[i]) : i \in 1..Len(dfp)})
    IN  AsSeq([i \in 1..Len(ks) |->
            LET In(r) == KeyYCU(r) = ks[i]
                g == SelectSeq(dfp, In)
            IN  [Year |-> ks[i][1], Country |-> ks[i][2], UoM |-> ks[i][3],
                 CountryValue |-> SumValue(g),
                 CountryQuantity |-> SumQuantity(g)]])

RECURSIVE SumCountryValue(_)
SumCountryValue(rows) ==
    IF Len(rows) = 0 THEN 0
    ELSE Head(rows).CountryValue + SumCountryValue(Tail(rows))

\* ((d["CountryValue"] / d["CountryValue"].sum()) ** 2).sum(): a 0/0 share
\* is NaN and the sum skips it.
RECURSIVE SumSquaredShares(_, _)
SumSquaredShares(rows, total) ==
    IF Len(rows) = 0 THEN FracZero
    ELSE FracAdd(ShareSq(Head(rows).CountryValue, total),
                 SumSquaredShares(Tail(rows), total))

\* Series.round(4), to the nearest even ten-thousandth on a tie.
Round4(f) ==
    LET scaled == f.n * 10000
        q == scaled \div f.d
        r2 == 2 * (scaled % f.d)
        up == r2 > f.d \/ (r2 = f.d /\ q % 2 = 1)
    IN  Frac(IF up THEN q + 1 ELSE q, 10000)

RECURSIVE SortInts(_)
SortInts(S) ==
    IF S = {} THEN << >>
    ELSE LET m == CHOOSE x \in S : \A y \in S : x <= y
         IN  << m >> \o SortInts(S \ {m})

\* Lines 312-313: one aggregate HHI per year of the summary's groups.
AggregateHHI(top) ==
    LET ys == SortInts({top[i].Year : i \in 1..Len(top)})
    IN  AsSeq([i \in 1..Len(ys) |->
            LET In(r) == r.Year = ys[i]
                d == SelectSeq(top, In)
            IN  [Year |-> ys[i],
                 HHI |-> Round4(SumSquaredShares(d, SumCountryValue(d)))]])

NoSummary == [status |-> "not_run", dfp |-> << >>, agg |-> << >>]

\* Lines 267-315.
ProductSummary(rows, btn, years, country, province, state, hs, supc) ==
    IF ~btn THEN NoSummary
    ELSE IF ~Given(hs) /\ ~Given(supc)
         THEN [NoSummary EXCEPT !.status = "warning"]
    ELSE LET dfp == ProductRows(rows, years, country, province, state, hs, supc)
         IN  IF Len(dfp) = 0 THEN [NoSummary EXCEPT !.status = "not_found"]
             ELSE [status |-> "shown", dfp |-> dfp,
                   agg |-> AggregateHHI(TopCountriesByYear(dfp))]

-----------------------------------------------------------------------------
(* The IPTB matrix section.  An IPTB row is [IndustryCode, Origin, Dest,   *)
(* TEC], all strings; a concordance row is [SUPC, naics_mod, ioic], the    *)
(* two codes cells that may be NaN.                                        *)

\* str.replace("%", "", regex=False)
RemovePercent(s) == LET Keep(c) == c # "%" IN SelectSeq(s, Keep)

\* Line 219: TEC as a number, NaN when it does not parse.
ParseTEC(s) == ToNumeric(StrCell(RemovePercent(s)))

\* Line 201: the rows whose IndustryCode starts with the prefix, case aside.
FilterIndustryPrefix(rows, prefix) ==
    IF ~Given(prefix) THEN rows
    ELSE LET Keep(r) == StartsWith(Lower(r.IndustryCode), Lower(prefix))
         IN  SelectSeq(rows, Keep)

\* Lines 208-209: the lower-cased codes of the concordance rows of a SUPC.
ConcordCodes(supc_match) ==
    {Lower(supc_match[i].naics_mod.s) :
        i \in {j \in 1..Len(supc_match) : ~IsNaN(supc_match[j].naics_mod)}}
    \cup
    {Lower(supc_match[i].ioic.s) :
        i \in {j \in 1..Len(supc_match) : ~IsNaN(supc_match[j].ioic)}}

\* Lines 204-210: the restriction to the industry codes of the SUPC, made
\* only when the concordance has a row for that SUPC.
RestrictBySupc(rows, conc, supc) ==
    IF Given(supc) /\ Len(conc) > 0
    THEN LET Match(c) == c.SUPC = supc
             supc_match == SelectSeq(conc, Match)
             Keep(r) == Lower(r.IndustryCode) \in ConcordCodes(supc_match)
         IN  IF Len(supc_match) > 0 THEN SelectSeq(rows, Keep) ELSE rows
    ELSE rows

\* Lines 199-210.
MatrixData(iptb, conc, industry, supc) ==
    RestrictBySupc(FilterIndustryPrefix(iptb, industry), conc, supc)

RECURSIVE SumParsed(_)
SumParsed(rows) ==
    IF Len(rows) = 0 THEN 0
    ELSE (IF IsNaN(ParseTEC(Head(rows).TEC)) THEN 0 ELSE ParseTEC(Head(rows).TEC).n)
         + SumParsed(Tail(rows))

CountParsed(rows) ==
    Cardinality({i \in 1..Len(rows) : ~IsNaN(ParseTEC(rows[i].TEC))})

\* A matrix cell before fillna: a number or NaN.
MissingCell == [nan |-> TRUE, v |-> FracZero]
ValueCell(f) == [nan |-> FALSE, v |-> f]

\* GroupBy.mean() of one group's TEC: NaN skipped, NaN when none parses.
GroupMean(g) ==
    IF CountParsed(g) = 0 THEN MissingCell
    ELSE ValueCell(Frac(SumParsed(g), CountParsed(g)))

\* groupby(["Origin","Dest"])["TEC"].mean().pivot(index="Origin",
\* columns="Dest", values="TEC"): a cell for every origin and dest of the
\* groups, NaN where the pair has no group.
PivotMean(rows) ==
    LET origins == {rows[i].Origin : i \in 1..Len(rows)}
        dests   == {rows[i].Dest : i \in 1..Len(rows)}
    IN  [od \in origins \X dests |->
            LET In(r) == r.Origin = od[1] /\ r.Dest = od[2]
                g == SelectSeq(rows, In)
            IN  IF Len(g) = 0 THEN MissingCell ELSE GroupMean(g)]

\* DataFrame.fillna(0)
FillNa0(p) ==
    [od \in DOMAIN p |-> IF p[od].nan THEN ValueCell(FracZero) ELSE p[od]]

\* Lines 215-226.
Pivot(matrix_data) == FillNa0(PivotMean(matrix_data))

NoMatrix == [status |-> "not_run", data |-> << >>, pivot |-> << >>]

\* Lines 183-232.
MatrixSection(iptb, conc, industry, supc) ==
    IF Len(iptb) = 0 THEN [NoMatrix EXCEPT !.status = "unavailable"]
    ELSE LET matrix_data == MatrixData(iptb, conc, industry, supc)
         IN  IF Len(matrix_data) = 0
             THEN [NoMatrix EXCEPT !.status = "no_data"]
             ELSE [status |-> "shown", data |-> matrix_data,
                   pivot |-> Pivot(matrix_data)]

-----------------------------------------------------------------------------
(* One run of the script. *)

\* The widgets' values before the user touches them.
DefaultIndustry == << "B", "S" >>

\* multiselect(default=max(years))
DefaultYears(table) ==
    LET ys == {table[i].Year : i \in 1..Len(table)}
    IN  {CHOOSE y \in ys : \A z \in ys : z <= y}

\* The options of the origin selectboxes.
CountryOptions(rows) == {All} \cup {rows[i].Country : i \in 1..Len(rows)}
ProvinceOptions(rows) ==
    {All} \cup {rows[i].Province.s : i \in {j \in 1..Len(rows) : ~IsNaN(rows[j].Province)}}
StateOptions(rows) ==
    {All} \cup {rows[i].State.s : i \in {j \in 1..Len(rows) : ~IsNaN(rows[j].State)}}

\* The script run on the session's frames with the widgets at the values
\* w.  fresh: the widgets are created by this run, so the year selection is
\* its default.  A run stops at line 93 while no dataset is loaded, and
\* ends at line 163 (max of no years) when no row has a Value.
\* compute_hhi_table is behind st.cache_data: called on the rows of its
\* last call it returns what it returned then.
Script(df, iptb, conc, fresh, w) ==
    LET loaded == Len(df.rows) > 0
        norm == IF loaded THEN Normalize(df) ELSE df
        arg == IF loaded
               THEN HhiInput(norm.rows, w.country, w.province, w.state)
               ELSE << >>
        t == IF arg = hhi_cache_arg
             THEN [hhi |-> hhi_table_all, merged |-> merged_shares_df]
             ELSE compute_hhi_table(arg)
        ran == loaded /\ Len(t.hhi) > 0
        yrs == IF ran /\ fresh THEN DefaultYears(t.hhi) ELSE w.years
        matched == get_matched_products(norm.rows, w.industry, w.country,
                                        w.province, w.state)
    IN  /\ df_loaded' = norm
        /\ df_IPTB' = iptb
        /\ concord' = conc
        /\ hhi_table_all' = t.hhi
        /\ merged_shares_df' = t.merged
        /\ hhi_cache_arg' = arg
        /\ selected_years' = yrs
        /\ selected_country' = w.country
        /\ selected_province' = w.province
        /\ selected_state' = w.state
        /\ industry_search' = w.industry
        /\ hs_input' = w.hs
        /\ supc_input' = w.supc
        /\ supc_matrix_input' = w.supcm
        /\ run_btn' = w.btn
        /\ matrix' = IF ran THEN MatrixSection(iptb, conc, w.industry, w.supcm)
                     ELSE NoMatrix
        /\ hhi_display' = IF ran THEN HhiDisplay(t.hhi, yrs, matched) ELSE << >>
        /\ summary' = IF ran
                      THEN ProductSummary(norm.rows, w.btn, yrs, w.country,
                                          w.province, w.state, w.hs, w.supc)
                      ELSE NoSummary
        /\ df_preview' = IF ran
                         THEN Preview(norm.rows, yrs, w.country, w.province,
                                      w.state, w.hs, w.supc, w.industry)
                         ELSE << >>

\* The widgets as the session holds them, the button released.
Widgets ==
    [years |-> selected_years, country |-> selected_country,
     province |-> selected_province, state |-> selected_state,
     industry |-> industry_search, hs |-> hs_input, supc |-> supc_input,
     supcm |-> supc_matrix_input, btn |-> FALSE]

\* The session before its first run.
InitWidgets ==
    /\ df_loaded = EmptyFrame
    /\ hhi_table_all = << >>
    /\ merged_shares_df = << >>
    /\ hhi_cache_arg = << >>
    /\ selected_years = {}
    /\ selected_country = All
    /\ selected_province = All
    /\ selected_state = All
    /\ industry_search = DefaultIndustry
    /\ hs_input = << >>
    /\ supc_input = << >>
    /\ supc_matrix_input = << >>
    /\ run_btn = FALSE
    /\ hhi_display = << >>
    /\ df_preview = << >>
    /\ summary = NoSummary
    /\ matrix = NoMatrix

\* What starts a run: the frames the session holds after the sidebar's
\* uploads and load, and the widgets' values.
Event(df, iptb, conc, fresh, w) ==
    [df |-> df, iptb |-> iptb, conc |-> conc, fresh |-> fresh, w |-> w]

\* The load button pressed with dataset d, on a session that holds none:
\* the run that creates the widgets.
LoadEvent(d) ==
    Event([hasYear |-> FALSE, rows |-> d], df_IPTB, concord, TRUE, Widgets)

\* A widget changed: a run on the frames the session holds.
WidgetEvent(w) == Event(df_loaded, df_IPTB, concord, FALSE, w)

\* Streamlit runs the whole script on every event.
Run(e) == Script(e.df, e.iptb, e.conc, e.fresh, e.w)

-----------------------------------------------------------------------------
(* Datasets. *)

\* All sequences over S of length 1 .. n.
SeqsUpTo(S, n) == UNION {[1..k -> S] : k \in 1..n}

CA == << "C", "A" >>
US == << "U", "S" >>
KG == << "K", "G" >>
NO == << "N", "O" >>

\* A row of a frame that has no Year column yet.
TradeRow(ym, hs, supc, country, province, state, uom, value, naics, ioic) ==
    [YearMonth |-> ym, Year |-> 0, Month |-> 0, MonthName |-> << >>,
     HS10 |-> hs, SUPC |-> supc, Country |-> country, Province |-> province,
     State |-> state, UoM |-> uom, Value |-> value, Quantity |-> NumCell(1),
     pci_2023 |-> NaNCell, Description |-> << "D" >> \o AsTypeStr(hs).s,
     naics |-> naics, ioic |-> ioic]

-----------------------------------------------------------------------------
(* The concentration table: compute_hhi_table on the datasets of up to     *)
(* MaxRows rows over three product keys in two periods, two countries and  *)
(* the values 0, 2 and NaN, and on the same datasets with one country's    *)
(* value split in two halves.                                              *)

TableRow(ym, hs, c, v) ==
    TradeRow(NumCell(ym), NumCell(hs), StrCell(<< "X" >>), c, NaNCell, NaNCell,
             KG, v, StrCell(<< "B", "S", "1" >>), NaNCell)

TableRows ==
    {TableRow(p[1], p[2], c, NumCell(v)) :
        p \in {<< 202301, 1 >>, << 202301, 2 >>, << 202402, 1 >>},
        c \in {CA, US}, v \in {0, 2}}
    \cup {TableRow(202301, 1, CA, NaNCell)}

TableDatasets == SeqsUpTo(TableRows, MaxRows)

InitTable ==
    /\ InitWidgets
    /\ df_IPTB = << >>
    /\ concord = << >>

\* The sidebar's load button, on a session that holds no dataset.
LoadTable ==
    IF Len(df_loaded.rows) = 0 THEN {LoadEvent(d) : d \in TableDatasets} ELSE {}

\* The two labels a split gives the halves.
N1 == << "N", "1" >>
N2 == << "N", "2" >>

\* The rows of country c under product key k that carry a value.
SplitIdx(rows, k, c) ==
    {i \in 1..Len(rows) :
        Key3(rows[i]) = k /\ rows[i].Country = c /\ ~IsNaN(rows[i].Value)}

RECURSIVE SumIdx(_, _)
SumIdx(rows, I) ==
    IF I = {} THEN 0
    ELSE LET i == CHOOSE x \in I : TRUE
         IN  rows[i].Value.n + SumIdx(rows, I \ {i})

\* The value v of country c under key k can be split in two equal halves
\* under labels the dataset does not use.
CanSplit(rows, k, c) ==
    /\ SplitIdx(rows, k, c) # {}
    /\ SumIdx(rows, SplitIdx(rows, k, c)) % 2 = 0
    /\ \A i \in 1..Len(rows) : rows[i].Country \notin {N1, N2}

\* The dataset with the value v of country c under key k replaced by two
\* rows of value v/2 under the labels N1 and N2, all else equal.
SplitCountry(rows, k, c) ==
    LET I == SplitIdx(rows, k, c)
        first == CHOOSE i \in I : \A j \in I : i <= j
        half == NumCell(SumIdx(rows, I) \div 2)
        F[i \in 0..Len(rows)] ==
            IF i = 0 THEN << >>
            ELSE F[i - 1] \o
                 (IF i = first
                  THEN << [rows[i] EXCEPT !.Country = N1, !.Value = half],
                          [rows[i] EXCEPT !.Country = N2, !.Value = half] >>
                  ELSE IF i \in I THEN << >> ELSE << rows[i] >>)
    IN  F[Len(rows)]

\* The load of the split dataset in place of the loaded one.
LoadSplit ==
    {Event([hasYear |-> TRUE, rows |-> SplitCountry(df_loaded.rows, kc[1], kc[2])],
           df_IPTB, concord, FALSE, Widgets) :
        kc \in {pr \in {<< Key3(df_loaded.rows[i]), df_loaded.rows[i].Country >> :
                          i \in 1..Len(df_loaded.rows)} :
                   CanSplit(df_loaded.rows, pr[1], pr[2])}}

NextTable == \E e \in LoadTable \cup LoadSplit : Run(e)

SpecTable == InitTable /\ [][NextTable]_vars

-----------------------------------------------------------------------------
(* What the claims speak of, stated on the loaded rows themselves. *)

\* The rows compute_hhi_table aggregates: those that carry a value.
ValuedIdx(rows) == {i \in 1..Len(rows) : ~IsNaN(rows[i].Value)}

\* The product keys and, per key, the origin countries of the valued rows.
ProductKeys(rows) == {Key3(rows[i]) : i \in ValuedIdx(rows)}

CountriesOf(rows, k) ==
    {rows[i].Country : i \in {j \in ValuedIdx(rows) : Key3(rows[j]) = k}}

CountryValue(rows, k, c) == SumIdx(rows, SplitIdx(rows, k, c))

TotalValue(rows, k) ==
    SumIdx(rows, {i \in ValuedIdx(rows) : Key3(rows[i]) = k})

TableKey(t) == << t.Year, t.HS10, t.SUPC >>

\* The HHI and the Rank a table holds for key k.
HhiOf(table, k) == table[CHOOSE i \in 1..Len(table) : TableKey(table[i]) = k].HHI
RankOf(table, k) == table[CHOOSE i \in 1..Len(table) : TableKey(table[i]) = k].Rank
HasKey(table, k) == \E i \in 1..Len(table) : TableKey(table[i]) = k

\* C2: every product key of the table whose total value is greater than 0
\* has 0 < HHI <= 1, and HHI = 1 exactly when one origin country holds the
\* whole value of the key.
C2_HhiBounds ==
    \A i \in 1..Len(hhi_table_all) :
        LET k == TableKey(hhi_table_all[i])
            h == hhi_table_all[i].HHI
            total == TotalValue(df_loaded.rows, k)
            whole == {c \in CountriesOf(df_loaded.rows, k) :
                         CountryValue(df_loaded.rows, k, c) = total}
        IN  total > 0 =>
                /\ FracLess(FracZero, h)
                /\ FracLeq(h, FracOne)
                /\ (h = FracOne) <=> (Cardinality(whole) = 1)

\* A table with a key of HHI 1 whose second country has value 0, and a key
\* of HHI below 1 and total above 0.
C2_Witness ==
    /\ \E i \in 1..Len(hhi_table_all) :
           LET k == TableKey(hhi_table_all[i])
           IN  /\ TotalValue(df_loaded.rows, k) > 0
               /\ hhi_table_all[i].HHI = FracOne
               /\ Cardinality(CountriesOf(df_loaded.rows, k)) = 2
    /\ \E i \in 1..Len(hhi_table_all) :
           /\ TotalValue(df_loaded.rows, TableKey(hhi_table_all[i])) > 0
           /\ FracLess(hhi_table_all[i].HHI, FracOne)

\* C3: within each year of the table the ranks are exactly 1..N, each once,
\* N the number of product keys of the year, and a larger rank never has a
\* larger HHI.
C3_RankWellFormed ==
    /\ {TableKey(hhi_table_all[i]) : i \in 1..Len(hhi_table_all)}
           = ProductKeys(df_loaded.rows)
    /\ \A i, j \in 1..Len(hhi_table_all) :
           (i # j) => TableKey(hhi_table_all[i]) # TableKey(hhi_table_all[j])
    /\ \A y \in {hhi_table_all[i].Year : i \in 1..Len(hhi_table_all)} :
        LET I == {i \in 1..Len(hhi_table_all) : hhi_table_all[i].Year = y}
            N == Cardinality({k \in ProductKeys(df_loaded.rows) : k[1] = y})
        IN  /\ {hhi_table_all[i].Rank : i \in I} = 1..N
            /\ \A i, j \in I :
                   /\ (i # j) => hhi_table_all[i].Rank # hhi_table_all[j].Rank
                   /\ (hhi_table_all[i].Rank < hhi_table_all[j].Rank)
                          => FracLeq(hhi_table_all[j].HHI, hhi_table_all[i].HHI)

\* A year with two keys of different HHI, ranked 1 and 2, and a second
\* year in the table.
C3_Witness ==
    /\ \E i, j \in 1..Len(hhi_table_all) :
           /\ hhi_table_all[i].Year = hhi_table_all[j].Year
           /\ FracLess(hhi_table_all[j].HHI, hhi_table_all[i].HHI)
           /\ hhi_table_all[i].Rank = 1
           /\ hhi_table_all[j].Rank = 2
    /\ \E i, j \in 1..Len(hhi_table_all) :
           hhi_table_all[i].Year # hhi_table_all[j].Year

\* C10: two rows of one year with equal HHI are ranked in the order the
\* aggregated table held them before the sort: the earlier row has the
\* smaller rank.
C10_TieOrder ==
    LET pre == HhiAggregated(df_loaded.rows)
    IN  \A i, j \in 1..Len(pre) :
            (/\ i < j
             /\ pre[i].Year = pre[j].Year
             /\ pre[i].HHI = pre[j].HHI)
            => /\ HasKey(hhi_table_all, TableKey(pre[i]))
               /\ HasKey(hhi_table_all, TableKey(pre[j]))
               /\ RankOf(hhi_table_all, TableKey(pre[i]))
                      < RankOf(hhi_table_all, TableKey(pre[j]))

\* Two keys of one year tie on HHI, behind a key of larger HHI or not.
C10_Witness ==
    LET pre == HhiAggregated(df_loaded.rows)
    IN  \E i, j \in 1..Len(pre) :
            /\ i < j
            /\ pre[i].Year = pre[j].Year
            /\ pre[i].HHI = pre[j].HHI
            /\ RankOf(hhi_table_all, TableKey(pre[j])) = 2

\* This step loads the split, at key k and country c, of the loaded dataset.
IsSplitStep(k, c) ==
    /\ CanSplit(df_loaded.rows, k, c)
    /\ df_loaded'.rows = SplitCountry(df_loaded.rows, k, c)

SplitPairs ==
    {<< Key3(df_loaded.rows[i]), df_loaded.rows[i].Country >> :
        i \in ValuedIdx(df_loaded.rows)}

\* C7 as claimed: the split of any country's value v of a key strictly
\* decreases the HHI of the key.
C7_SplitDecreases_AnyValue ==
    [][\A kc \in SplitPairs :
          IsSplitStep(kc[1], kc[2])
          => FracLess(HhiOf(hhi_table_all', kc[1]), HhiOf(hhi_table_all, kc[1]))]_vars

\* C7, amended: the split of a country's value v > 0 of a key strictly
\* decreases the HHI of the key, and the split of a value v = 0 leaves it
\* as it was.
C7_SplitDecreases ==
    [][\A kc \in SplitPairs :
          IsSplitStep(kc[1], kc[2])
          => IF CountryValue(df_loaded.rows, kc[1], kc[2]) > 0
             THEN FracLess(HhiOf(hhi_table_all', kc[1]), HhiOf(hhi_table_all, kc[1]))
             ELSE HhiOf(hhi_table_all', kc[1]) = HhiOf(hhi_table_all, kc[1])]_vars

\* A dataset that holds the halves of a split value v > 0 beside another
\* country's value.
C7_Witness ==
    \E i, j, l \in 1..Len(df_loaded.rows) :
        /\ df_loaded.rows[i].Country = N1
        /\ df_loaded.rows[j].Country = N2
        /\ df_loaded.rows[i].Value.n > 0
        /\ df_loaded.rows[l].Country = CA
        /\ Key3(df_loaded.rows[l]) = Key3(df_loaded.rows[i])
        /\ df_loaded.rows[l].Value.n > 0

-----------------------------------------------------------------------------
(* The dashboard: a dataset of up to MaxDashRows rows is loaded, and the   *)
(* user changes the facets, each change one run of the script.             *)

ON == << "O", "N" >>
NY == << "N", "Y" >>
BS1 == << "B", "S", "1" >>
X2 == << "X", "2" >>

DashRows ==
    { TradeRow(NumCell(202301), NumCell(1), StrCell(<< "X" >>), CA,
               StrCell(ON), NaNCell, KG, NumCell(2), StrCell(BS1), NaNCell),
      TradeRow(NumCell(202301), NumCell(1), StrCell(<< "X" >>), US,
               NaNCell, StrCell(NY), KG, NumCell(1), StrCell(BS1), NaNCell),
      TradeRow(NumCell(202301), NumCell(2), StrCell(<< "Y" >>), US,
               NaNCell, StrCell(NY), NO, NumCell(2), NaNCell, StrCell(X2)),
      TradeRow(NumCell(202402), NumCell(1), StrCell(<< "X" >>), CA,
               StrCell(ON), NaNCell, KG, NumCell(2), StrCell(BS1), NaNCell),
      TradeRow(NumCell(202301), NumCell(2), StrCell(<< "Y" >>), CA,
               NaNCell, NaNCell, KG, NaNCell, NaNCell, StrCell(X2)) }

DashDatasets == SeqsUpTo(DashRows, MaxDashRows)

\* What the user may type in the text inputs.
IndustryInputs == {<< >>, DefaultIndustry, << "x" >>}
ProductInputs == {<< << >>, << >> >>, << << "1" >>, << >> >>, << << >>, << "y" >> >>}

\* The script has reached its widgets: a dataset is loaded and has a year.
WidgetsShown == Len(hhi_table_all) > 0

YearOptions == {hhi_table_all[i].Year : i \in 1..Len(hhi_table_all)}

Init ==
    /\ InitWidgets
    /\ df_IPTB = << >>
    /\ concord = << >>

\* The sidebar's load button, on a session that holds no dataset.
LoadDataset ==
    IF Len(df_loaded.rows) = 0 THEN {LoadEvent(d) : d \in DashDatasets} ELSE {}

\* The year multiselect is changed.
SelectYears ==
    IF WidgetsShown
    THEN {WidgetEvent([Widgets EXCEPT !.years = ys]) : ys \in SUBSET YearOptions}
    ELSE {}

\* The country, province and state selectboxes are set.
SelectOrigin ==
    IF WidgetsShown
    THEN {WidgetEvent([Widgets EXCEPT !.country = c, !.province = p, !.state = s]) :
             c \in CountryOptions(df_loaded.rows),
             p \in ProvinceOptions(df_loaded.rows),
             s \in StateOptions(df_loaded.rows)}
    ELSE {}

\* The industry prefix is typed.
SetIndustry ==
    IF WidgetsShown
    THEN {WidgetEvent([Widgets EXCEPT !.industry = ind]) : ind \in IndustryInputs}
    ELSE {}

\* The HS10 and SUPC inputs are typed.
SetProduct ==
    IF WidgetsShown
    THEN {WidgetEvent([Widgets EXCEPT !.hs = hp[1], !.supc = hp[2]]) :
             hp \in ProductInputs}
    ELSE {}

Next ==
    \E e \in LoadDataset \cup SelectYears \cup SelectOrigin \cup SetIndustry
             \cup SetProduct :
        Run(e)

Spec == Init /\ [][Next]_vars

\* C1: two runs on the same dataset that differ in the country, province
\* and state facets alone show, for every (Year, HS10, SUPC) row they both
\* show, the same HHI and the same Rank.
C1_OriginFacetsKeepValues ==
    [][(/\ df_loaded'.rows = df_loaded.rows
        /\ selected_years' = selected_years
        /\ industry_search' = industry_search
        /\ hs_input' = hs_input
        /\ supc_input' = supc_input)
       => \A i \in 1..Len(hhi_display) : \A j \in 1..Len(hhi_display') :
              TableKey(hhi_display[i]) = TableKey(hhi_display'[j])
              => /\ hhi_display[i].HHI = hhi_display'[j].HHI
                 /\ hhi_display[i].Rank = hhi_display'[j].Rank]_vars

\* A country is selected and the table shows a product that a second
\* country supplies too, at the HHI of both countries together.
C1_Witness ==
    /\ selected_country = CA
    /\ \E i \in 1..Len(hhi_display) :
           /\ Cardinality(CountriesOf(df_loaded.rows, TableKey(hhi_display[i]))) = 2
           /\ FracLess(hhi_display[i].HHI, FracOne)

\* Every facet is at "no restriction".
NoRestriction ==
    /\ selected_years = {}
    /\ selected_country = All
    /\ selected_province = All
    /\ selected_state = All
    /\ ~Given(industry_search)
    /\ ~Given(hs_input)
    /\ ~Given(supc_input)

\* C4: with every facet at "no restriction" the preview is the loaded
\* dataset and the ranked HHI table is the full table of compute_hhi_table,
\* the same rows in the same order.
C4_FilterIdentity ==
    (WidgetsShown /\ NoRestriction)
    => /\ df_preview = df_loaded.rows
       /\ hhi_display = hhi_table_all

\* A loaded record satisfies the selected country, province, state and
\* industry-prefix facets.
SatisfiesFacets(r) ==
    /\ (Given(selected_country) /\ selected_country # All)
       => r.Country = selected_country
    /\ (Given(selected_province) /\ selected_province # All)
       => r.Province = StrCell(selected_province)
    /\ (Given(selected_state) /\ selected_state # All)
       => r.State = StrCell(selected_state)
    /\ Given(industry_search)
       => \/ StartsWith(Lower(AsTypeStr(r.naics).s), Lower(industry_search))
          \/ StartsWith(Lower(AsTypeStr(r.ioic).s), Lower(industry_search))

\* The (HS10, SUPC) pairs of the loaded records that satisfy the facets.
MatchedPairs ==
    {<< df_loaded.rows[i].HS10.s, df_loaded.rows[i].SUPC.s >> :
        i \in {j \in 1..Len(df_loaded.rows) : SatisfiesFacets(df_loaded.rows[j])}}

\* C11: every row of the displayed ranked HHI table has its Year among the
\* selected years and its (HS10, SUPC) pair among the pairs of the loaded
\* records that satisfy the country, province, state and industry-prefix
\* facets; when no loaded record satisfies them the table is empty.
C11_DisplayedRowsMatch ==
    WidgetsShown
    => /\ \A i \in 1..Len(hhi_display) :
              /\ hhi_display[i].Year \in selected_years
              /\ << hhi_display[i].HS10, hhi_display[i].SUPC >> \in MatchedPairs
       /\ MatchedPairs = {} => hhi_display = << >>

-----------------------------------------------------------------------------
(* The product summary: datasets of up to MaxSummaryRows rows of one       *)
(* product in one period, over two countries, two units of measure and     *)
(* the values 1 and 2; the user types the product inputs and presses the   *)
(* run button.                                                             *)

SummaryRows ==
    {TradeRow(NumCell(202301), NumCell(1), StrCell(<< "X" >>), c, NaNCell,
              NaNCell, u, NumCell(v), StrCell(BS1), NaNCell) :
        c \in {CA, US}, u \in {KG, NO}, v \in {1, 2}}

SummaryDatasets == SeqsUpTo(SummaryRows, MaxSummaryRows)

InitSummary ==
    /\ InitWidgets
    /\ df_IPTB = << >>
    /\ concord = << >>

\* The sidebar's load button, on a session that holds no dataset.
LoadSummary ==
    IF Len(df_loaded.rows) = 0 THEN {LoadEvent(d) : d \in SummaryDatasets} ELSE {}

\* The HS10 and SUPC inputs are typed, the button not pressed.
TypeProduct ==
    IF WidgetsShown
    THEN {WidgetEvent([Widgets EXCEPT !.hs = hp[1], !.supc = hp[2]]) :
             hp \in ProductInputs}
    ELSE {}

\* The country selectbox is set.
SelectCountry ==
    IF WidgetsShown
    THEN {WidgetEvent([Widgets EXCEPT !.country = c]) :
             c \in CountryOptions(df_loaded.rows)}
    ELSE {}

\* The run button is pressed: a run with run_btn true.
PressRun ==
    IF WidgetsShown THEN {WidgetEvent([Widgets EXCEPT !.btn = TRUE])} ELSE {}

NextSummary ==
    \E e \in LoadSummary \cup TypeProduct \cup SelectCountry \cup PressRun : Run(e)

SpecSummary == InitSummary /\ [][NextSummary]_vars

\* The countries of the rows of a year.
CountriesOfYear(dfp, y) ==
    {dfp[i].Country : i \in {j \in 1..Len(dfp) : dfp[j].Year = y}}

\* A country's value in a year, summed across all of its rows.
CountryTotal(dfp, y, c) ==
    LET In(r) == r.Year = y /\ r.Country = c IN SumValue(SelectSeq(dfp, In))

\* The value of all rows of a year.
YearTotal(dfp, y) ==
    LET In(r) == r.Year = y IN SumValue(SelectSeq(dfp, In))

\* The sum over a set of countries of (country total / year total) squared.
RECURSIVE SumCountryShareSq(_, _, _)
SumCountryShareSq(dfp, y, cs) ==
    IF cs = {} THEN FracZero
    ELSE LET c == CHOOSE x \in cs : TRUE
         IN  FracAdd(FracMul(Frac(CountryTotal(dfp, y, c), YearTotal(dfp, y)),
                             Frac(CountryTotal(dfp, y, c), YearTotal(dfp, y))),
                     SumCountryShareSq(dfp, y, cs \ {c}))

\* C6: the aggregate HHI the summary reports for a year is the sum, over
\* the distinct countries of the matched rows, of the squared share of the
\* country's value summed across all of its rows, units of measure included
\* (to the four decimals the report rounds to).
C6_AggregateByCountry ==
    summary.status = "shown"
    => \A i \in 1..Len(summary.agg) :
           YearTotal(summary.dfp, summary.agg[i].Year) > 0
           => summary.agg[i].HHI =
                  Round4(SumCountryShareSq(summary.dfp, summary.agg[i].Year,
                             CountriesOfYear(summary.dfp, summary.agg[i].Year)))

-----------------------------------------------------------------------------
(* The IPTB matrix: a session with one dataset to load, IPTB files of up   *)
(* to MaxIptbRows rows and concordance files of up to MaxConcordRows rows  *)
(* to upload, and the industry prefix and matrix SUPC inputs.              *)

IptbRow(code, origin, dest, tec) ==
    [IndustryCode |-> code, Origin |-> origin, Dest |-> dest, TEC |-> tec]

IptbRows ==
    {IptbRow(BS1, << "A" >>, << "B" >>, << "1", "0", "%" >>),
     IptbRow(BS1, << "A" >>, << "B" >>, << "2", "0" >>),
     IptbRow(BS1, << "B" >>, << "A" >>, << "x" >>),
     IptbRow(<< "b", "s", "2" >>, << "A" >>, << "B" >>, << "1", "%", "0" >>),
     IptbRow(X2, << "B" >>, << "B" >>, << "3", "0", "%" >>)}

IptbFiles == SeqsUpTo(IptbRows, MaxIptbRows)

S1 == << "S", "1" >>
S2 == << "S", "2" >>
S9 == << "S", "9" >>

ConcordRow(supc, naics_mod, ioic) ==
    [SUPC |-> supc, naics_mod |-> naics_mod, ioic |-> ioic]

ConcordRows ==
    {ConcordRow(S1, StrCell(BS1), NaNCell),
     ConcordRow(S1, NaNCell, StrCell(X2)),
     ConcordRow(S2, NaNCell, NaNCell)}

ConcordFiles == SeqsUpTo(ConcordRows, MaxConcordRows)

MatrixDataset ==
    << TradeRow(NumCell(202301), NumCell(1), StrCell(<< "X" >>), CA, NaNCell,
                NaNCell, KG, NumCell(1), StrCell(BS1), NaNCell) >>

SupcMatrixInputs == {<< >>, S1, S2, S9}

InitMatrix ==
    /\ InitWidgets
    /\ df_IPTB = << >>
    /\ concord = << >>

\* The sidebar's load button, on a session that holds no dataset.
LoadMatrixDataset ==
    IF Len(df_loaded.rows) = 0 THEN {LoadEvent(MatrixDataset)} ELSE {}

\* An IPTB CSV is uploaded, on a session that holds none.
UploadIptb ==
    IF Len(df_IPTB) = 0
    THEN {Event(df_loaded, f, concord, FALSE, Widgets) : f \in IptbFiles}
    ELSE {}

\* A concordance CSV is uploaded, on a session that holds none.
UploadConcord ==
    IF Len(concord) = 0
    THEN {Event(df_loaded, df_IPTB, f, FALSE, Widgets) : f \in ConcordFiles}
    ELSE {}

\* The industry prefix and the matrix SUPC are typed.
SetMatrixInputs ==
    IF WidgetsShown
    THEN {WidgetEvent([Widgets EXCEPT !.industry = ind, !.supcm = sm]) :
             ind \in IndustryInputs, sm \in SupcMatrixInputs}
    ELSE {}

NextMatrix ==
    \E e \in LoadMatrixDataset \cup UploadIptb \cup UploadConcord
             \cup SetMatrixInputs :
        Run(e)

SpecMatrix == InitMatrix /\ [][NextMatrix]_vars

\* The matrix section reached its builder: IPTB rows were at hand.
MatrixBuilt == matrix.status \in {"shown", "no_data"}

\* The lower-cased naics_mod and ioic values the concordance holds for
\* exactly that SUPC.
CodesOfSupc(conc, supc) ==
    LET Match(c) == c.SUPC = supc IN ConcordCodes(SelectSeq(conc, Match))

\* C5: with a matrix SUPC given and a non-empty concordance, every IPTB
\* row that feeds the matrix has its IndustryCode (case aside) among the
\* codes the concordance holds for that SUPC, and when it holds none the
\* builder gives "no data".
C5_RestrictedToConcordance ==
    (MatrixBuilt /\ Given(supc_matrix_input) /\ Len(concord) > 0)
    => /\ \A i \in 1..Len(matrix.data) :
              Lower(matrix.data[i].IndustryCode)
                  \in CodesOfSupc(concord, supc_matrix_input)
       /\ CodesOfSupc(concord, supc_matrix_input) = {}
          => matrix.status = "no_data"

\* TEC parsed as a percentage: one trailing % stripped, then a number.
StripTrailingPercent(s) ==
    IF Len(s) > 0 /\ s[Len(s)] = "%" THEN SubSeq(s, 1, Len(s) - 1) ELSE s

PercentTEC(s) == ToNumeric(StrCell(StripTrailingPercent(s)))

RECURSIVE SumPercentTEC(_)
SumPercentTEC(rows) ==
    IF Len(rows) = 0 THEN 0
    ELSE (IF IsNaN(PercentTEC(Head(rows).TEC)) THEN 0
          ELSE PercentTEC(Head(rows).TEC).n)
         + SumPercentTEC(Tail(rows))

CountPercentTEC(rows) ==
    Cardinality({i \in 1..Len(rows) : ~IsNaN(PercentTEC(rows[i].TEC))})

\* C8: the matrix has exactly one cell for each pair of an observed origin
\* and an observed dest; the cell of a pair that occurs in the rows holds
\* the mean of those rows' TEC values parsed with a trailing % stripped,
\* every other cell (and a pair none of whose TEC values parses) holds 0.0,
\* and no cell is missing.
C8_MatrixCells ==
    matrix.status = "shown"
    => LET rows == matrix.data
           origins == {rows[i].Origin : i \in 1..Len(rows)}
           dests == {rows[i].Dest : i \in 1..Len(rows)}
       IN  /\ DOMAIN matrix.pivot = origins \X dests
           /\ \A od \in origins \X dests :
                  LET In(r) == r.Origin = od[1] /\ r.Dest = od[2]
                      g == SelectSeq(rows, In)
                  IN  /\ ~matrix.pivot[od].nan
                      /\ matrix.pivot[od].v =
                             IF CountPercentTEC(g) > 0
                             THEN Frac(SumPercentTEC(g), CountPercentTEC(g))
                             ELSE FracZero

-----------------------------------------------------------------------------
(* Normalization: datasets of up to MaxNormRows rows as a file gives them  *)
(* (HS10 a number, a short string, a string of ten or of eleven            *)
(* characters, or missing; Value a number, a numeric string, text or       *)
(* missing; SUPC a string or a number; with or without a Year column),     *)
(* loaded once and then normalized again by every rerun.                   *)

HS10Cells ==
    {NumCell(123), StrCell(<< "1", "2", "3" >>),
     StrCell(<< "0", "0", "0", "0", "0", "0", "0", "1", "2", "3" >>),
     StrCell(<< "1", "2", "3", "4", "5", "6", "7", "8", "9", "0", "1" >>),
     StrCell(<< "-", "5" >>), NaNCell}

ValueCells == {NumCell(2), StrCell(<< "2" >>), StrCell(<< "x" >>), NaNCell}

SupcCells == {StrCell(<< "X" >>), NumCell(7), NaNCell}

NormRows ==
    {TradeRow(NumCell(202301), h, sp, CA, NaNCell, NaNCell, KG, v,
              StrCell(BS1), NaNCell) :
        h \in HS10Cells, v \in ValueCells, sp \in SupcCells}

\* The row in a file that has the Year, Month and MonthName columns.
WithYearColumns(r) ==
    [DeriveYearMonth(r) EXCEPT !.YearMonth = r.YearMonth]

NormDatasets ==
    {[hasYear |-> FALSE, rows |-> d] : d \in SeqsUpTo(NormRows, MaxNormRows)}
    \cup
    {[hasYear |-> TRUE,
      rows |-> AsSeq([i \in 1..Len(d) |-> WithYearColumns(d[i])])] :
        d \in SeqsUpTo(NormRows, MaxNormRows)}

InitNorm ==
    /\ InitWidgets
    /\ df_IPTB = << >>
    /\ concord = << >>

\* The sidebar's load button, on a session that holds no dataset.
LoadNorm ==
    IF Len(df_loaded.rows) = 0
    THEN {Event(d, df_IPTB, concord, TRUE, Widgets) : d \in NormDatasets}
    ELSE {}

\* A rerun that changes no widget.
Rerun ==
    IF Len(df_loaded.rows) > 0 THEN {WidgetEvent(Widgets)} ELSE {}

NextNorm ==
    \E e \in LoadNorm \cup Rerun \cup SelectYears \cup SelectCountry
             \cup TypeProduct \cup PressRun :
        Run(e)

SpecNorm == InitNorm /\ [][NextNorm]_vars

\* C9: a rerun on a loaded (so already normalized) dataset leaves every
\* column and the row count of the dataset as they were, and padding a
\* padded HS10 again gives the same string.
C9_NormalizationIdempotent ==
    [][Len(df_loaded.rows) > 0
       => /\ df_loaded' = df_loaded
          /\ \A i \in 1..Len(df_loaded'.rows) :
                 PadHS10(df_loaded'.rows[i].HS10) = df_loaded'.rows[i].HS10]_vars

\* The button was pressed, so the script has rerun, on a dataset whose
\* HS10 was padded from three characters to ten.
C9_Witness ==
    /\ run_btn
    /\ \E i \in 1..Len(df_loaded.rows) :
           df_loaded.rows[i].HS10 =
               StrCell(<< "0", "0", "0", "0", "0", "0", "0", "1", "2", "3" >>)

=============================================================================
